---- MODULE Spec2Model ----
(***************************************************************************)
(* A model of the QiCard Payment Gateway client (package qi): the request  *)
(* pipeline Client.doRequest, the seven operations built on it, and the    *)
(* Error Model (APIError and its classification predicates), concurrent    *)
(* calls on one client, and the Timestamp Codec (type Time).               *)
(*                                                                         *)
(* Texts that the code concatenates or parses (URLs, paths, identifiers)   *)
(* are sequences of tokens: a token is either a run of ordinary characters *)
(* or one of the characters the URL parser treats specially.  Texts that   *)
(* the code only copies (header values, credentials) are strings.          *)
(***************************************************************************)
EXTENDS Integers, Sequences, FiniteSets, TLC

VARIABLES
    cfg,        \* the Client: baseURL, terminalID, username, password, signature
    calls,      \* number of operation calls started on the client
    pc,         \* position of the current call inside the operation / doRequest
    op,         \* the operation called
    id,         \* its identifier argument (paymentID / requestID), a token sequence
    arg,        \* its request argument (*CreatePaymentRequest, ...)
    ctx,        \* the caller's context: "live" or "done" (cancelled / deadline expired)
    reqBody,    \* the encoded request body handed to http.NewRequestWithContext
    req,        \* the *http.Request built by doRequest
    net,        \* what the HTTP client's round trip has seen so far
    resp,       \* the *http.Response returned by httpClient.Do
    respBody,   \* the bytes io.ReadAll produced
    local,      \* the operation's local result variable doRequest decodes into
    ret,        \* what the operation returned: (result pointer, error)
    phases,     \* history: the pipeline phases the call went through, in order
    doCount,    \* history: invocations of httpClient.Do by the call
    decodes,    \* history: the json.Unmarshal targets the call decoded into
    cancelAt,   \* history: position of the call when its context became done
    parked,     \* the frames of the other calls in progress on the client, each
                \* stopped between two steps while another goroutine runs
    codec       \* a Time value under Time.UnmarshalJSON / Time.MarshalJSON

vars == <<cfg, calls, pc, op, id, arg, ctx, reqBody, req, net, resp, respBody,
          local, ret, phases, doCount, decodes, cancelAt, parked, codec>>

(***************************************************************************)
(* Bounds of the model.                                                    *)
(***************************************************************************)
\* Operation calls made, one after the other, on one client.
MaxCalls == 2

(***************************************************************************)
(* Error codes (errors.go).                                                *)
(***************************************************************************)
ErrorCodeOrderNotFound == 2
ErrorCodeCanNotProcessRequest == 5
ErrorCodePaymentNotFound == 12
ErrorCodeValidationError == 21
ErrorCodeBadCredentials == 27
ErrorCodeTransferNotFound == 29
ErrorCodeTokenNotFound == 31

\* The symbolic message the gateway pairs with a code.
ErrorMessageOf(code) ==
    CASE code = ErrorCodeOrderNotFound        -> "ORDER_NOT_FOUND"
      [] code = ErrorCodeCanNotProcessRequest -> "CAN_NOT_PROCESS_REQUEST"
      [] code = ErrorCodePaymentNotFound      -> "PAYMENT_NOT_FOUND"
      [] code = ErrorCodeValidationError      -> "VALIDATION_ERROR"
      [] code = ErrorCodeBadCredentials       -> "BAD_CREDENTIALS"
      [] code = ErrorCodeTransferNotFound     -> "TRANSFER_NOT_FOUND"
      [] code = ErrorCodeTokenNotFound        -> "TOKEN_NOT_FOUND"
      [] OTHER                                -> ""

EnvelopeCodes ==
    {ErrorCodeOrderNotFound, ErrorCodeCanNotProcessRequest, ErrorCodePaymentNotFound,
     ErrorCodeValidationError, ErrorCodeBadCredentials, ErrorCodeTransferNotFound,
     ErrorCodeTokenNotFound}

(***************************************************************************)
(* The Client and its construction (NewClient and the options).            *)
(***************************************************************************)
DefaultBaseURL == <<"https://api.qi.iq", "/api/v1">>

SandboxBaseURL == <<"https://sandbox.qi.iq", "/api/v1">>

\* NewClient(terminalID, opts...): the defaults, then every option applied.
NewClient(terminalID, baseURL, username, password, signature) ==
    [baseURL |-> baseURL, terminalID |-> terminalID,
     username |-> username, password |-> password, signature |-> signature]

\* The clients a caller can construct: WithBaseURL given or not, WithBasicAuth
\* given or not (with either credential possibly empty), WithSignature given or not.
Clients ==
    {NewClient("term-1", b, u, p, s) :
        b \in {DefaultBaseURL, SandboxBaseURL}, u \in {"", "user"},
        p \in {"", "secret"}, s \in {"", "sig-1"}}

(***************************************************************************)
(* Request arguments and their JSON encoding (json.Marshal).               *)
(***************************************************************************)
\* A request argument: ptr is "none" for the untyped nil the GET operations
\* pass, "nil" for a nil *CreatePaymentRequest (a non-nil interface value),
\* "set" for a pointer to a request record.  amount is the float64 Amount.
Arg(ptr, requestId, amount) == [ptr |-> ptr, requestId |-> requestId, amount |-> amount]

NoArg == Arg("none", "", "zero")

RequestArgs == {Arg("nil", "", "zero"), Arg("set", "req-1", "finite"), Arg("set", "req-1", "NaN")}

JSONRequest(kind, requestId, amount) == [kind |-> kind, requestId |-> requestId, amount |-> amount]

\* json.Marshal(body): a nil pointer encodes as null; a float64 that is NaN (or
\* an infinity) is an UnsupportedValueError; a zero Amount is omitted (omitempty).
Marshal(body) ==
    IF body.ptr = "nil" THEN [ok |-> TRUE, json |-> JSONRequest("null", "", "absent")]
    ELSE IF body.amount = "NaN" THEN [ok |-> FALSE, json |-> JSONRequest("", "", "absent")]
    ELSE [ok |-> TRUE,
          json |-> JSONRequest("object", body.requestId,
                               IF body.amount = "zero" THEN "absent" ELSE "number")]

\* The io.Reader handed to http.NewRequestWithContext (nil when no body).
NoReqBody == [present |-> FALSE, json |-> JSONRequest("", "", "absent")]

(***************************************************************************)
(* Response bodies and their JSON decoding (json.Unmarshal).               *)
(***************************************************************************)
\* A response body.  kind: "empty" (no bytes), "text" (not JSON), "null",
\* "array", "object", or "partial" (bytes read before a failed read).  For an
\* object: err says what its "error" member is, code/message are that member's
\* fields, paymentId/status/amount are the result fields it carries.
Body(kind, err, code, message, paymentId, status, amount) ==
    [kind |-> kind, err |-> err, code |-> code, message |-> message,
     paymentId |-> paymentId, status |-> status, amount |-> amount]

RawBody(kind) == Body(kind, "absent", 0, "", "", "", "absent")

EmptyBody == RawBody("empty")

EnvelopeBody(code) == Body("object", "object", code, ErrorMessageOf(code), "", "", "absent")

ResultBody(amount) == Body("object", "absent", 0, "", "p1", "CREATED", amount)

ResponseBodies ==
    {EmptyBody, RawBody("text"), RawBody("null"), RawBody("array"), RawBody("object"),
     Body("object", "string", 0, "", "", "", "absent"),
     ResultBody("number"), ResultBody("string")}
    \cup {EnvelopeBody(c) : c \in EnvelopeCodes}

\* The Error struct: Error.Code and Error.Message.
ErrorEnvelope(code, message) == [code |-> code, message |-> message]

ZeroError == ErrorEnvelope(0, "")

\* json.Unmarshal(respBody, &apiErr) with apiErr a zero Error: fails on no
\* input, on text that is not JSON and on a value of the wrong JSON type;
\* null and an object without an "error" member leave the zero value.
UnmarshalError(b) ==
    CASE b.kind \in {"empty", "text", "partial", "array"} -> [ok |-> FALSE, val |-> ZeroError]
      [] b.kind = "null" -> [ok |-> TRUE, val |-> ZeroError]
      [] b.kind = "object" /\ b.err = "absent" -> [ok |-> TRUE, val |-> ZeroError]
      [] b.kind = "object" /\ b.err = "string" -> [ok |-> FALSE, val |-> ZeroError]
      [] b.kind = "object" /\ b.err = "object" ->
            [ok |-> TRUE, val |-> ErrorEnvelope(b.code, b.message)]

\* The result records (Payment, PaymentStatusResponse, ...): the fields the
\* operations have in common.
Result(paymentId, status, amount) == [paymentId |-> paymentId, status |-> status, amount |-> amount]

ZeroResult == Result("", "", "zero")

\* json.Unmarshal(respBody, result): as above; an object fills the fields it
\* carries, and a member of the wrong type (amount given as a string) is an
\* UnmarshalTypeError reported after the other members were stored.
UnmarshalResult(b, target) ==
    CASE b.kind \in {"empty", "text", "partial", "array"} -> [ok |-> FALSE, val |-> target]
      [] b.kind = "null" -> [ok |-> TRUE, val |-> target]
      [] b.kind = "object" ->
            [ok |-> b.amount # "string",
             val |-> Result(IF b.paymentId = "" THEN target.paymentId ELSE b.paymentId,
                            IF b.status = "" THEN target.status ELSE b.status,
                            IF b.amount = "number" THEN "finite" ELSE target.amount)]

(***************************************************************************)
(* The Error Model (errors.go).                                            *)
(***************************************************************************)
\* An *APIError: StatusCode, Message (the raw body text; the zero string is
\* the empty text) and Err (hasErr says whether the pointer is non-nil).
APIError(status, message, hasErr, envelope) ==
    [StatusCode |-> status, Message |-> message, hasErr |-> hasErr, Err |-> envelope]

NoAPIError == APIError(0, EmptyBody, FALSE, ZeroError)

\* A variant of IsNotFound: no fallback to the status code.
IsNotFoundEnvelopeOnly(e) ==
    IF e.hasErr
    THEN \/ e.Err.code = ErrorCodePaymentNotFound
         \/ e.Err.code = ErrorCodeOrderNotFound
         \/ e.Err.code = ErrorCodeTransferNotFound
         \/ e.Err.code = ErrorCodeTokenNotFound
    ELSE FALSE

IsNotFound(e) ==
    IF e.hasErr
    THEN \/ e.Err.code = ErrorCodePaymentNotFound
         \/ e.Err.code = ErrorCodeOrderNotFound
         \/ e.Err.code = ErrorCodeTransferNotFound
         \/ e.Err.code = ErrorCodeTokenNotFound
    ELSE e.StatusCode = 404

\* A variant of IsValidationError: the envelope is not consulted.
IsValidationErrorByStatus(e) == e.StatusCode = 400

IsValidationError(e) ==
    IF e.hasErr THEN e.Err.code = ErrorCodeValidationError ELSE e.StatusCode = 400

\* A variant of IsAuthenticationError: status 401 counts with or without
\* an envelope.
IsAuthenticationErrorAnyTier(e) ==
    \/ e.StatusCode = 401
    \/ e.hasErr /\ e.Err.code = ErrorCodeBadCredentials

IsAuthenticationError(e) ==
    IF e.hasErr THEN e.Err.code = ErrorCodeBadCredentials ELSE e.StatusCode = 401

(***************************************************************************)
(* Go error values returned by doRequest.                                  *)
(***************************************************************************)
\* kind "nil": no error; "wrapped": fmt.Errorf(msg + ": %w", cause);
\* "APIError": a *APIError.
GoError(kind, msg, api) == [kind |-> kind, msg |-> msg, api |-> api]

NilError == GoError("nil", "", NoAPIError)

Errorf(msg) == GoError("wrapped", msg, NoAPIError)

\* What a caller's type assertion err.(*APIError) yields.
IsAPIError(e) == e.kind = "APIError"

(***************************************************************************)
(* The seven operations: the (method, path, body) each hands to doRequest. *)
(***************************************************************************)
Operations ==
    {"CreatePayment", "GetPaymentStatus", "GetPaymentStatusByRequest", "CancelPayment",
     "CancelPaymentByRequest", "RefundPayment", "RefundPaymentByRequest"}

\* The operations that take an identifier, and those that take a request.
TakesId(o) == o # "CreatePayment"

TakesRequest(o) == o \notin {"GetPaymentStatus", "GetPaymentStatusByRequest"}

OpMethod(o) ==
    IF o \in {"GetPaymentStatus", "GetPaymentStatusByRequest"} THEN "GET" ELSE "POST"

\* A variant of OpPath: the templates of the two by-request POST operations exchanged.
OpPathSwapped(o, i) ==
    CASE o = "CreatePayment"             -> <<"/payment">>
      [] o = "GetPaymentStatus"          -> <<"/payment/">> \o i \o <<"/status">>
      [] o = "GetPaymentStatusByRequest" -> <<"/payment/status/by/request/">> \o i
      [] o = "CancelPayment"             -> <<"/payment/">> \o i \o <<"/cancel">>
      [] o = "CancelPaymentByRequest"    -> <<"/payment/refund/by/request/">> \o i
      [] o = "RefundPayment"             -> <<"/payment/">> \o i \o <<"/refund">>
      [] o = "RefundPaymentByRequest"    -> <<"/payment/cancel/by/request/">> \o i

OpPath(o, i) ==
    CASE o = "CreatePayment"             -> <<"/payment">>
      [] o = "GetPaymentStatus"          -> <<"/payment/">> \o i \o <<"/status">>
      [] o = "GetPaymentStatusByRequest" -> <<"/payment/status/by/request/">> \o i
      [] o = "CancelPayment"             -> <<"/payment/">> \o i \o <<"/cancel">>
      [] o = "CancelPaymentByRequest"    -> <<"/payment/cancel/by/request/">> \o i
      [] o = "RefundPayment"             -> <<"/payment/">> \o i \o <<"/refund">>
      [] o = "RefundPaymentByRequest"    -> <<"/payment/refund/by/request/">> \o i

\* Identifiers a caller may pass: plain ones, and ones holding characters the
\* URL parser treats specially ("?" starts the query, "#" the fragment, "%zz"
\* is a malformed percent-escape).
Identifiers ==
    {<<"p1">>, <<"p1", "?", "x">>, <<"p1", "#", "x">>, <<"%zz">>}

(***************************************************************************)
(* http.NewRequestWithContext: parsing the URL (net/url.Parse).            *)
(***************************************************************************)
\* The index of the first token t in s, or 0.
IndexOf(s, t) ==
    IF \E k \in 1..Len(s) : s[k] = t
    THEN CHOOSE k \in 1..Len(s) : s[k] = t /\ \A j \in 1..(k - 1) : s[j] # t
    ELSE 0

Before(s, t) == IF IndexOf(s, t) = 0 THEN s ELSE SubSeq(s, 1, IndexOf(s, t) - 1)

After(s, t) == IF IndexOf(s, t) = 0 THEN <<>> ELSE SubSeq(s, IndexOf(s, t) + 1, Len(s))

HasToken(s, t) == IndexOf(s, t) # 0

\* url.Parse(rawURL): the fragment is cut at the first "#", then the query at
\* the first "?"; what is left is scheme://host and the path.  The path and
\* the fragment must unescape (a malformed percent-escape is an error); the
\* query is kept raw.
ParseURL(raw) ==
    LET noFrag == Before(raw, "#")
        frag   == After(raw, "#")
        rest   == Before(noFrag, "?")
        query  == After(noFrag, "?")
    IN  [ok    |-> ~HasToken(rest, "%zz") /\ ~HasToken(frag, "%zz"),
         host  |-> Head(rest),
         path  |-> Tail(rest),
         query |-> query]

(***************************************************************************)
(* The request and its headers.                                            *)
(***************************************************************************)
\* req.Header.Set(name, value): replaces whatever the header held.
HeaderSet(h, name, value) ==
    {e \in h : e.name # name} \cup {[name |-> name, value |-> value]}

HasHeader(h, name) == \E e \in h : e.name = name

HeaderGet(h, name) == IF HasHeader(h, name) THEN (CHOOSE e \in h : e.name = name).value ELSE ""

\* req.SetBasicAuth(username, password): "Basic " + base64(username:password).
BasicAuth(username, password) == "Basic " \o "b64(" \o username \o ":" \o password \o ")"

\* The fixed headers (lines 94-96).
SetFixedHeaders(h, c) ==
    HeaderSet(HeaderSet(HeaderSet(h, "Content-Type", "application/json"),
                        "Accept", "application/json"),
              "X-Terminal-Id", c.terminalID)

\* A variant of SetAuthHeaders: basic authentication attached when either
\* credential is configured.
SetAuthHeadersEither(h, c) ==
    LET withBasic == IF c.username # "" \/ c.password # ""
                     THEN HeaderSet(h, "Authorization", BasicAuth(c.username, c.password))
                     ELSE h
    IN  IF c.signature # "" THEN HeaderSet(withBasic, "X-Signature", c.signature)
        ELSE withBasic

\* The authentication headers (lines 98-104).
SetAuthHeaders(h, c) ==
    LET withBasic == IF c.username # "" /\ c.password # ""
                     THEN HeaderSet(h, "Authorization", BasicAuth(c.username, c.password))
                     ELSE h
    IN  IF c.signature # "" THEN HeaderSet(withBasic, "X-Signature", c.signature)
        ELSE withBasic

Request(built, method, host, path, query, headers, body) ==
    [built |-> built, method |-> method, host |-> host, path |-> path, query |-> query,
     headers |-> headers, body |-> body]

NoRequest == Request(FALSE, "", "", <<>>, <<>>, {}, NoReqBody)

(***************************************************************************)
(* doRequest, phase by phase, as functions of what each phase reads.       *)
(***************************************************************************)
\* A variant of SerializeBody: the encoding error is dropped and the request
\* goes on without a body.
SerializeBodyIgnoringError(body) ==
    IF body.ptr # "none"
    THEN LET m == Marshal(body)
         IN  IF ~m.ok
             THEN [err |-> NilError, reqBody |-> NoReqBody]
             ELSE [err |-> NilError, reqBody |-> [present |-> TRUE, json |-> m.json]]
    ELSE [err |-> NilError, reqBody |-> NoReqBody]

\* Lines 80-87: encode the body when one is supplied.
SerializeBody(body) ==
    IF body.ptr # "none"
    THEN LET m == Marshal(body)
         IN  IF ~m.ok
             THEN [err |-> Errorf("failed to marshal request body"), reqBody |-> NoReqBody]
             ELSE [err |-> NilError, reqBody |-> [present |-> TRUE, json |-> m.json]]
    ELSE [err |-> NilError, reqBody |-> NoReqBody]

\* Lines 89-104: build the request for c.baseURL+path and set its headers.
BuildRequest(c, method, path, body) ==
    LET u == ParseURL(c.baseURL \o path)
    IN  IF ~u.ok
        THEN [err |-> Errorf("failed to create request"), req |-> NoRequest]
        ELSE [err |-> NilError,
              req |-> Request(TRUE, method, u.host, u.path, u.query,
                              SetAuthHeaders(SetFixedHeaders({}, c), c), body)]

\* A variant of IsErrorStatus: the comparison made strict.
IsErrorStatusStrict(status) == status > 400

\* Line 117.
IsErrorStatus(status) == status >= 400

\* A variant of ShouldDecode: the length of the body is not looked at.
ShouldDecodeAlways(hasResult, b) == hasResult

\* Line 131: result != nil && len(respBody) > 0.
ShouldDecode(hasResult, b) == hasResult /\ b.kind # "empty"

\* Lines 117-137: what doRequest makes of a response whose body was read:
\* the error it returns, the value left in *result, and the decodings tried.
Interpret(status, b, target) ==
    IF IsErrorStatus(status)
    THEN LET u == UnmarshalError(b)
         IN  [err |-> IF ~u.ok
                      THEN GoError("APIError", "", APIError(status, b, FALSE, ZeroError))
                      ELSE GoError("APIError", "", APIError(status, EmptyBody, TRUE, u.val)),
              local |-> target, decodes |-> {"Error"}]
    ELSE IF ShouldDecode(TRUE, b)
         THEN LET u == UnmarshalResult(b, target)
              IN  [err |-> IF ~u.ok THEN Errorf("failed to unmarshal response") ELSE NilError,
                   local |-> u.val, decodes |-> {"Result"}]
         ELSE [err |-> NilError, local |-> target, decodes |-> {}]

\* The operation's return (lines 143-146 and alike): nil and the error, or
\* the address of the local result and no error.
Returned(returned, nilResult, result, err) ==
    [returned |-> returned, nilResult |-> nilResult, result |-> result, err |-> err]

NotReturned == Returned(FALSE, TRUE, ZeroResult, NilError)

\* A variant of OpReturn: the result variable is returned with the error.
OpReturnBoth(err, value) ==
    Returned(TRUE, FALSE, value, err)

OpReturn(err, value) ==
    IF err.kind # "nil" THEN Returned(TRUE, TRUE, ZeroResult, err)
    ELSE Returned(TRUE, FALSE, value, NilError)

(***************************************************************************)
(* The network as the HTTP client sees it.                                 *)
(***************************************************************************)
\* state: "idle", "sent" (request on the wire), "resp" (status line and
\* headers of the response arrived), "failed" (the round trip failed: refused,
\* DNS, reset), "broken" (the connection failed while the body was arriving).
Net(state, status) == [state |-> state, status |-> status]

Statuses == {200, 301, 399, 400, 401, 404, 500}

Response(received, status) == [received |-> received, StatusCode |-> status]

NoResponse == Response(FALSE, 0)

(***************************************************************************)
(* The Timestamp Codec: type Time and its JSON methods.                    *)
(*                                                                         *)
(* A time.Time is an instant, in seconds and nanoseconds counted from      *)
(* January 1, year 1, 00:00:00 UTC (the zero Time), and the offset of its  *)
(* location, in seconds east of UTC.  A text is a sequence of tokens: the  *)
(* double quote, the digits "YYYY-MM-DDTHH:MM:SS" of a wall clock (kept as *)
(* the number of seconds the wall clock shows past the zero Time), a       *)
(* fractional second ".nnn", the letter Z, a numeric offset "+hh:mm", the  *)
(* word null, or a run of any other characters.                            *)
(***************************************************************************)
GoTime(sec, nsec, off) == [sec |-> sec, nsec |-> nsec, off |-> off]

\* The zero value of Time (time.Time{}).
ZeroTime == GoTime(0, 0, 0)

\* time.Time.IsZero: the instant is the zero instant, whatever the location.
IsZero(t) == t.sec = 0 /\ t.nsec = 0

\* Seconds of the instants of the model: the zero instant and two others.
Seconds == {0, 86400, 90000}

\* Sub-second components, in nanoseconds.
Nanos == {0, 500000000}

\* Zone offsets, in seconds east of UTC: UTC, +01:00 and -05:00.
Offsets == {0, 3600, 0 - 18000}

Times == {GoTime(sec, nsec, off) : sec \in Seconds, nsec \in Nanos, off \in Offsets}

Tok(c, n) == [c |-> c, n |-> n]

Quote == Tok("quote", 0)

DateTime(wall) == Tok("datetime", wall)

Fraction(nsec) == Tok("frac", nsec)

Zulu == Tok("Z", 0)

Offset(off) == Tok("offset", off)

Null == Tok("null", 0)

Chars == Tok("chars", 0)

\* strings.Trim(s, "\""): every leading and every trailing double quote goes.
RECURSIVE TrimLeft(_)
TrimLeft(s) ==
    IF s # <<>> /\ Head(s) = Quote THEN TrimLeft(Tail(s)) ELSE s

RECURSIVE TrimRight(_)
TrimRight(s) ==
    IF s # <<>> /\ s[Len(s)] = Quote THEN TrimRight(SubSeq(s, 1, Len(s) - 1)) ELSE s

Trim(s) == TrimRight(TrimLeft(s))

\* *time.ParseError: it keeps the layout and the text handed to time.Parse.
ParseError(layout, value) ==
    [kind |-> "ParseError", layout |-> layout, value |-> value]

NoParseError == [kind |-> "nil", layout |-> "", value |-> <<>>]

Parsed(ok, t, err) == [ok |-> ok, t |-> t, err |-> err]

\* A variant of Parse: a text without a zone is read in the zone +01:00.
ParseNaiveElsewhere(layout, s) ==
    LET hasClock == s # <<>> /\ s[1].c = "datetime"
        afterClock == IF s = <<>> THEN <<>> ELSE Tail(s)
        hasFrac == afterClock # <<>> /\ afterClock[1].c = "frac"
        nsec == IF hasFrac THEN afterClock[1].n ELSE 0
        rest == IF hasFrac THEN Tail(afterClock) ELSE afterClock
        fail == Parsed(FALSE, ZeroTime, ParseError(layout, s))
    IN  IF ~hasClock THEN fail
        ELSE IF layout = "RFC3339"
             THEN IF Len(rest) = 1 /\ rest[1].c = "Z"
                  THEN Parsed(TRUE, GoTime(s[1].n, nsec, 0), NoParseError)
                  ELSE IF Len(rest) = 1 /\ rest[1].c = "offset"
                       THEN Parsed(TRUE, GoTime(s[1].n - rest[1].n, nsec, rest[1].n),
                                   NoParseError)
                       ELSE fail
             ELSE IF rest = <<>>
                  THEN Parsed(TRUE, GoTime(s[1].n - 3600, nsec, 3600), NoParseError)
                  ELSE fail

\* time.Parse(layout, s) for the two layouts of UnmarshalJSON: time.RFC3339
\* ("2006-01-02T15:04:05Z07:00") and "2006-01-02T15:04:05".  Under both, the
\* text may carry a fractional second right after the seconds, although the
\* layout has none; RFC3339 then wants Z or a numeric offset and the end of
\* the text, the other layout wants the end of the text and reads the wall
\* clock in UTC.
Parse(layout, s) ==
    LET hasClock == s # <<>> /\ s[1].c = "datetime"
        afterClock == IF s = <<>> THEN <<>> ELSE Tail(s)
        hasFrac == afterClock # <<>> /\ afterClock[1].c = "frac"
        nsec == IF hasFrac THEN afterClock[1].n ELSE 0
        rest == IF hasFrac THEN Tail(afterClock) ELSE afterClock
        fail == Parsed(FALSE, ZeroTime, ParseError(layout, s))
    IN  IF ~hasClock THEN fail
        ELSE IF layout = "RFC3339"
             THEN IF Len(rest) = 1 /\ rest[1].c = "Z"
                  THEN Parsed(TRUE, GoTime(s[1].n, nsec, 0), NoParseError)
                  ELSE IF Len(rest) = 1 /\ rest[1].c = "offset"
                       THEN Parsed(TRUE, GoTime(s[1].n - rest[1].n, nsec, rest[1].n),
                                   NoParseError)
                       ELSE fail
             ELSE IF rest = <<>>
                  THEN Parsed(TRUE, GoTime(s[1].n, nsec, 0), NoParseError)
                  ELSE fail

\* t.Time.Format(time.RFC3339): the wall clock of t in its location, then Z
\* for the offset zero and the numeric offset otherwise.  The layout has no
\* fractional second: the nanoseconds of t are not written.
Format(t) ==
    <<DateTime(t.sec + t.off), IF t.off = 0 THEN Zulu ELSE Offset(t.off)>>

\* What UnmarshalJSON leaves: its error, the destination, and the layouts it
\* handed to time.Parse, in order, each with whether the parse succeeded.
Unmarshalled(err, t, tried) == [err |-> err, t |-> t, tried |-> tried]

Tried(layout, ok) == [layout |-> layout, ok |-> ok]

\* A variant of UnmarshalJSON: the result of the second time.Parse is stored
\* before its error is looked at.
UnmarshalJSONStoringFirst(t, data) ==
    LET s == Trim(data)
        first == Parse("RFC3339", s)
        second == Parse("naive", s)
    IN  IF s = <<Null>> \/ s = <<>>
        THEN Unmarshalled(NoParseError, t, <<>>)
        ELSE IF first.ok
             THEN Unmarshalled(NoParseError, first.t, <<Tried("RFC3339", TRUE)>>)
             ELSE IF ~second.ok
                  THEN Unmarshalled(second.err, second.t,
                                    <<Tried("RFC3339", FALSE), Tried("naive", FALSE)>>)
                  ELSE Unmarshalled(NoParseError, second.t,
                                    <<Tried("RFC3339", FALSE), Tried("naive", TRUE)>>)

\* (t *Time) UnmarshalJSON(data) (lines 229-250): t is the destination.
UnmarshalJSON(t, data) ==
    LET s == Trim(data)
        first == Parse("RFC3339", s)
        second == Parse("naive", s)
    IN  IF s = <<Null>> \/ s = <<>>
        THEN Unmarshalled(NoParseError, t, <<>>)
        ELSE IF first.ok
             THEN Unmarshalled(NoParseError, first.t, <<Tried("RFC3339", TRUE)>>)
             ELSE IF ~second.ok
                  THEN Unmarshalled(second.err, t,
                                    <<Tried("RFC3339", FALSE), Tried("naive", FALSE)>>)
                  ELSE Unmarshalled(NoParseError, second.t,
                                    <<Tried("RFC3339", FALSE), Tried("naive", TRUE)>>)

\* json.Marshal of a string: the text between double quotes.
MarshalString(s) == <<Quote>> \o s \o <<Quote>>

\* A variant of MarshalJSON: the zero Time is formatted like any other.
MarshalJSONNoNull(t) ==
    MarshalString(Format(t))

\* (t Time) MarshalJSON() (lines 253-258); it never fails.
MarshalJSON(t) ==
    IF IsZero(t) THEN <<Null>> ELSE MarshalString(Format(t))

\* The texts a gateway payload, or a direct caller, hands to UnmarshalJSON.
Texts ==
    {<<Null>>, <<>>, <<Quote, Quote>>, <<Quote, Null, Quote>>,
     <<Quote, DateTime(86400), Zulu, Quote>>,
     <<Quote, DateTime(86400), Offset(3600), Quote>>,
     <<Quote, DateTime(86400), Fraction(500000000), Zulu, Quote>>,
     <<Quote, DateTime(86400), Quote>>,
     <<Quote, DateTime(90000), Quote>>,
     <<Quote, DateTime(86400), Fraction(500000000), Quote>>,
     <<Quote, Chars, Quote>>,
     <<Quote, DateTime(86400), Chars, Quote>>,
     <<Quote, Chars, DateTime(86400), Zulu, Quote>>,
     <<Chars>>}

\* The codec at work on one Time: where it is, the value t given to
\* MarshalJSON, the text in hand and where it came from, the destination of
\* UnmarshalJSON before and after the call, and what the call left.
Codec(at, t, data, from, before, dest, err, tried) ==
    [at |-> at, t |-> t, data |-> data, from |-> from, before |-> before,
     dest |-> dest, err |-> err, tried |-> tried]

CodecIdle == Codec("idle", ZeroTime, <<>>, "", ZeroTime, ZeroTime, NoParseError, <<>>)

(***************************************************************************)
(* The state machine.                                                      *)
(***************************************************************************)
Init ==
    /\ cfg \in Clients
    /\ calls = 0
    /\ pc = "idle"
    /\ op = "" /\ id = <<>> /\ arg = NoArg
    /\ ctx = "live"
    /\ reqBody = NoReqBody
    /\ req = NoRequest
    /\ net = Net("idle", 0)
    /\ resp = NoResponse
    /\ respBody = EmptyBody
    /\ local = ZeroResult
    /\ ret = NotReturned
    /\ phases = <<>>
    /\ doCount = 0
    /\ decodes = {}
    /\ cancelAt = "never"
    /\ parked = <<>>
    /\ codec = CodecIdle

\* The caller calls operation o with identifier i and request a, under a
\* fresh context; the operation declares its zero result and enters doRequest.
Call(o, i, a) ==
    /\ pc = "idle"
    /\ calls < MaxCalls
    /\ IF TakesId(o) THEN i \in Identifiers ELSE i = <<>>
    /\ IF TakesRequest(o) THEN a \in RequestArgs ELSE a = NoArg
    /\ calls' = calls + 1
    /\ op' = o /\ id' = i /\ arg' = a
    /\ ctx' = "live"
    /\ pc' = "serialize"
    /\ reqBody' = NoReqBody
    /\ req' = NoRequest
    /\ net' = Net("idle", 0)
    /\ resp' = NoResponse
    /\ respBody' = EmptyBody
    /\ local' = ZeroResult
    /\ ret' = NotReturned
    /\ phases' = <<>>
    /\ doCount' = 0
    /\ decodes' = {}
    /\ cancelAt' = "never"
    /\ UNCHANGED <<parked, codec, cfg>>

\* The caller has taken what the operation returned; the frame of the call,
\* with its request, response and locals, is gone.  The client is as it was.
Finish ==
    /\ pc = "done"
    /\ pc' = "idle"
    /\ op' = "" /\ id' = <<>> /\ arg' = NoArg
    /\ ctx' = "live"
    /\ reqBody' = NoReqBody
    /\ req' = NoRequest
    /\ net' = Net("idle", 0)
    /\ resp' = NoResponse
    /\ respBody' = EmptyBody
    /\ local' = ZeroResult
    /\ ret' = NotReturned
    /\ phases' = <<>>
    /\ doCount' = 0
    /\ decodes' = {}
    /\ cancelAt' = "never"
    /\ UNCHANGED <<parked, codec, cfg, calls>>

\* doRequest returns err and the operation returns to its caller.
Return(err, value) ==
    /\ ret' = OpReturn(err, value)
    /\ pc' = "done"

\* Serialize (lines 80-87).
Serialize ==
    /\ pc = "serialize"
    /\ phases' = Append(phases, "Serialize")
    /\ LET s == SerializeBody(arg)
       IN  IF s.err.kind # "nil"
           THEN Return(s.err, local) /\ UNCHANGED reqBody
           ELSE reqBody' = s.reqBody /\ pc' = "build" /\ UNCHANGED ret
    /\ UNCHANGED <<parked, codec, cfg, calls, op, id, arg, ctx, req, net, resp, respBody, local,
                   doCount, decodes, cancelAt>>

\* A variant of Build: the URL built for the call is kept as the client's
\* base URL.
BuildKeepingURL ==
    /\ pc = "build"
    /\ phases' = Append(phases, "Build")
    /\ cfg' = [cfg EXCEPT !.baseURL = cfg.baseURL \o OpPath(op, id)]
    /\ LET b == BuildRequest(cfg, OpMethod(op), OpPath(op, id), reqBody)
       IN  IF b.err.kind # "nil"
           THEN Return(b.err, local) /\ UNCHANGED req
           ELSE req' = b.req /\ pc' = "send" /\ UNCHANGED ret
    /\ UNCHANGED <<parked, codec, calls, op, id, arg, ctx, reqBody, net, resp, respBody, local,
                   doCount, decodes, cancelAt>>

\* Build (lines 89-104).
Build ==
    /\ pc = "build"
    /\ phases' = Append(phases, "Build")
    /\ LET b == BuildRequest(cfg, OpMethod(op), OpPath(op, id), reqBody)
       IN  IF b.err.kind # "nil"
           THEN Return(b.err, local) /\ UNCHANGED req
           ELSE req' = b.req /\ pc' = "send" /\ UNCHANGED ret
    /\ UNCHANGED <<parked, codec, cfg, calls, op, id, arg, ctx, reqBody, net, resp, respBody, local,
                   doCount, decodes, cancelAt>>

\* Send (line 106): c.httpClient.Do(req) is invoked.  The client refuses a
\* request whose context is already done; otherwise the request goes out.
Send ==
    /\ pc = "send"
    /\ phases' = Append(phases, "Send")
    /\ doCount' = doCount + 1
    /\ IF ctx = "done"
       THEN Return(Errorf("failed to execute request"), local) /\ UNCHANGED net
       ELSE net' = Net("sent", 0) /\ pc' = "inflight" /\ UNCHANGED ret
    /\ UNCHANGED <<parked, codec, cfg, calls, op, id, arg, ctx, reqBody, req, resp, respBody, local,
                   decodes, cancelAt>>

\* The gateway (or a proxy in front of it) answers with status s.
Respond(s) ==
    /\ pc = "inflight"
    /\ net.state = "sent"
    /\ net' = Net("resp", s)
    /\ UNCHANGED <<parked, codec, cfg, calls, pc, op, id, arg, ctx, reqBody, req, resp, respBody, local,
                   ret, phases, doCount, decodes, cancelAt>>

\* The network fails: before the response arrived, or while its body arrives.
NetFail ==
    /\ \/ pc = "inflight" /\ net.state = "sent" /\ net' = Net("failed", 0)
       \/ pc = "read" /\ net.state = "resp" /\ net' = Net("broken", net.status)
    /\ UNCHANGED <<parked, codec, cfg, calls, pc, op, id, arg, ctx, reqBody, req, resp, respBody, local,
                   ret, phases, doCount, decodes, cancelAt>>

\* The caller cancels the context, or its deadline (or the client's timeout)
\* expires, while the call is running.
Cancel ==
    /\ pc \in {"serialize", "build", "send", "inflight", "read"}
    /\ ctx = "live"
    /\ ctx' = "done"
    /\ cancelAt' = pc
    /\ UNCHANGED <<parked, codec, cfg, calls, pc, op, id, arg, reqBody, req, net, resp, respBody, local,
                   ret, phases, doCount, decodes>>

\* httpClient.Do returns the response (line 106, err == nil).  When the
\* context became done as the response arrived, the client may return either.
DoReturn ==
    /\ pc = "inflight"
    /\ net.state = "resp"
    /\ resp' = Response(TRUE, net.status)
    /\ pc' = "read"
    /\ UNCHANGED <<parked, codec, cfg, calls, op, id, arg, ctx, reqBody, req, net, respBody, local,
                   ret, phases, doCount, decodes, cancelAt>>

\* A variant of DoError: a failed send is tried once more.
DoErrorRetry ==
    /\ pc = "inflight"
    /\ net.state = "failed" \/ ctx = "done"
    /\ IF doCount < 2
       THEN pc' = "send" /\ net' = Net("idle", 0) /\ UNCHANGED ret
       ELSE Return(Errorf("failed to execute request"), local) /\ UNCHANGED net
    /\ UNCHANGED <<parked, codec, cfg, calls, op, id, arg, ctx, reqBody, req, resp, respBody, local,
                   phases, doCount, decodes, cancelAt>>

\* A variant of DoError: the request does not watch the caller's context.
DoErrorNetOnly ==
    /\ pc = "inflight"
    /\ net.state = "failed"
    /\ Return(Errorf("failed to execute request"), local)
    /\ UNCHANGED <<parked, codec, cfg, calls, op, id, arg, ctx, reqBody, req, net, resp, respBody, local,
                   phases, doCount, decodes, cancelAt>>

\* httpClient.Do returns an error (lines 107-109): the round trip failed or
\* the context is done.
DoError ==
    /\ pc = "inflight"
    /\ net.state = "failed" \/ ctx = "done"
    /\ Return(Errorf("failed to execute request"), local)
    /\ UNCHANGED <<parked, codec, cfg, calls, op, id, arg, ctx, reqBody, req, net, resp, respBody, local,
                   phases, doCount, decodes, cancelAt>>

\* Interpret, the read succeeds (lines 112-137): the whole body b arrived and
\* io.ReadAll returned it; doRequest interprets the response and returns.
ReadAll(b) ==
    /\ pc = "read"
    /\ net.state = "resp"
    /\ phases' = Append(phases, "Interpret")
    /\ respBody' = b
    /\ LET r == Interpret(resp.StatusCode, b, local)
       IN  /\ local' = r.local
           /\ decodes' = r.decodes
           /\ Return(r.err, r.local)
    /\ UNCHANGED <<parked, codec, cfg, calls, op, id, arg, ctx, reqBody, req, net, resp, doCount, cancelAt>>

\* A variant of ReadError: the status is looked at before the read error.
ReadErrorStatusFirst ==
    /\ pc = "read"
    /\ net.state = "broken" \/ ctx = "done"
    /\ phases' = Append(phases, "Interpret")
    /\ respBody' = RawBody("partial")
    /\ IF IsErrorStatus(resp.StatusCode)
       THEN Return(GoError("APIError", "",
                           APIError(resp.StatusCode, RawBody("partial"), FALSE, ZeroError)),
                   local)
       ELSE Return(Errorf("failed to read response body"), local)
    /\ UNCHANGED <<parked, codec, cfg, calls, op, id, arg, ctx, reqBody, req, net, resp, local,
                   doCount, decodes, cancelAt>>

\* Interpret, the read fails (lines 112-115): the connection broke or the
\* context is done; io.ReadAll returns the bytes read so far and the error.
ReadError ==
    /\ pc = "read"
    /\ net.state = "broken" \/ ctx = "done"
    /\ phases' = Append(phases, "Interpret")
    /\ respBody' = RawBody("partial")
    /\ Return(Errorf("failed to read response body"), local)
    /\ UNCHANGED <<parked, codec, cfg, calls, op, id, arg, ctx, reqBody, req, net, resp, local,
                   doCount, decodes, cancelAt>>

Next ==
    \/ \E o \in Operations, i \in Identifiers \cup {<<>>}, a \in RequestArgs \cup {NoArg} :
          Call(o, i, a)
    \/ Serialize
    \/ Build
    \/ Send
    \/ \E s \in Statuses : Respond(s)
    \/ NetFail
    \/ Cancel
    \/ DoReturn
    \/ DoError
    \/ \E b \in ResponseBodies : ReadAll(b)
    \/ ReadError
    \/ Finish

Spec == Init /\ [][Next]_vars

(***************************************************************************)
(* Concurrent calls on one client.  Each call runs in its own goroutine    *)
(* with its own frame (arguments, locals, request, response); the steps of *)
(* the calls interleave.  The frame of the goroutine that is running is in *)
(* the call variables, the frames of the others wait in parked.            *)
(***************************************************************************)
Frame(fpc, fop, fid, farg, fctx, freqBody, freq, fnet, fresp, frespBody, flocal, fret, fphases, fdoCount, fdecodes, fcancelAt) ==
    [pc |-> fpc, op |-> fop, id |-> fid, arg |-> farg, ctx |-> fctx,
     reqBody |-> freqBody, req |-> freq, net |-> fnet, resp |-> fresp,
     respBody |-> frespBody, local |-> flocal, ret |-> fret, phases |-> fphases,
     doCount |-> fdoCount, decodes |-> fdecodes, cancelAt |-> fcancelAt]

\* The frame of the running call.
Running ==
    Frame(pc, op, id, arg, ctx, reqBody, req, net, resp, respBody, local, ret,
          phases, doCount, decodes, cancelAt)

\* The scheduler loads frame f.
Load(f) ==
    /\ pc' = f.pc /\ op' = f.op /\ id' = f.id /\ arg' = f.arg /\ ctx' = f.ctx
    /\ reqBody' = f.reqBody /\ req' = f.req /\ net' = f.net /\ resp' = f.resp
    /\ respBody' = f.respBody /\ local' = f.local /\ ret' = f.ret
    /\ phases' = f.phases /\ doCount' = f.doCount /\ decodes' = f.decodes
    /\ cancelAt' = f.cancelAt

NoFrame ==
    Frame("idle", "", <<>>, NoArg, "live", NoReqBody, NoRequest, Net("idle", 0),
          NoResponse, EmptyBody, ZeroResult, NotReturned, <<>>, 0, {}, "never")

\* The running call is stopped between two of its steps; another goroutine
\* may start a call or go on with one.
Yield ==
    /\ pc # "idle"
    /\ parked' = Append(parked, Running)
    /\ Load(NoFrame)
    /\ UNCHANGED <<codec, cfg, calls>>

\* The k-th waiting call goes on.
Resume(k) ==
    /\ pc = "idle"
    /\ k \in 1..Len(parked)
    /\ Load(parked[k])
    /\ parked' = SubSeq(parked, 1, k - 1) \o SubSeq(parked, k + 1, Len(parked))
    /\ UNCHANGED <<codec, cfg, calls>>

\* The calls the concurrent callers make, the statuses and the bodies the
\* gateway answers them with.
ConcurrentCalls ==
    {<<"GetPaymentStatus", <<"p1">>, NoArg>>,
     <<"CreatePayment", <<>>, Arg("set", "req-1", "finite")>>,
     <<"CancelPayment", <<"p1">>, Arg("nil", "", "zero")>>}

ConcurrentStatuses == {200, 404}

ConcurrentBodies == {ResultBody("number"), RawBody("text")}

ConcInit == Init /\ cfg.username = "user" /\ cfg.password = "secret"

ConcNext ==
    \/ \E c \in ConcurrentCalls : Call(c[1], c[2], c[3])
    \/ Serialize
    \/ Build
    \/ Send
    \/ \E s \in ConcurrentStatuses : Respond(s)
    \/ NetFail
    \/ DoReturn
    \/ DoError
    \/ \E b \in ConcurrentBodies : ReadAll(b)
    \/ ReadError
    \/ Finish
    \/ Yield
    \/ \E k \in 1..MaxCalls : Resume(k)

ConcSpec == ConcInit /\ [][ConcNext]_vars

(***************************************************************************)
(* The Timestamp Codec at work: a Time value is formatted, or a text       *)
(* arrives in a payload, and the text is parsed into a destination.  No    *)
(* call is in progress on the client.                                      *)
(***************************************************************************)
\* The values a destination holds before UnmarshalJSON: the zero Time of a
\* fresh record, or a Time stored earlier.
Destinations == {ZeroTime, GoTime(90000, 0, 0)}

TimeInit ==
    /\ cfg = NewClient("term-1", DefaultBaseURL, "", "", "")
    /\ calls = 0
    /\ parked = <<>>
    /\ pc = "idle"
    /\ op = "" /\ id = <<>> /\ arg = NoArg
    /\ ctx = "live"
    /\ reqBody = NoReqBody
    /\ req = NoRequest
    /\ net = Net("idle", 0)
    /\ resp = NoResponse
    /\ respBody = EmptyBody
    /\ local = ZeroResult
    /\ ret = NotReturned
    /\ phases = <<>>
    /\ doCount = 0
    /\ decodes = {}
    /\ cancelAt = "never"
    /\ codec \in {Codec("value", t, <<>>, "", d, d, NoParseError, <<>>) :
                     t \in Times, d \in Destinations}

\* A caller marshals codec.t (MarshalJSON).
TimeMarshal ==
    /\ codec.at = "value"
    /\ codec' = [codec EXCEPT !.at = "text", !.data = MarshalJSON(codec.t),
                              !.from = "MarshalJSON"]
    /\ UNCHANGED <<cfg, calls, pc, op, id, arg, ctx, reqBody, req, net, resp, respBody,
                   local, ret, phases, doCount, decodes, cancelAt, parked>>

\* A payload brings a text.
TimeReceive(text) ==
    /\ codec.at = "value"
    /\ codec' = [codec EXCEPT !.at = "text", !.data = text, !.from = "payload"]
    /\ UNCHANGED <<cfg, calls, pc, op, id, arg, ctx, reqBody, req, net, resp, respBody,
                   local, ret, phases, doCount, decodes, cancelAt, parked>>

\* The text is parsed into the destination (UnmarshalJSON).
TimeUnmarshal ==
    /\ codec.at = "text"
    /\ LET u == UnmarshalJSON(codec.dest, codec.data)
       IN  codec' = [codec EXCEPT !.at = "parsed", !.dest = u.t, !.err = u.err,
                                  !.tried = u.tried]
    /\ UNCHANGED <<cfg, calls, pc, op, id, arg, ctx, reqBody, req, net, resp, respBody,
                   local, ret, phases, doCount, decodes, cancelAt, parked>>

TimeNext ==
    \/ TimeMarshal
    \/ \E text \in Texts : TimeReceive(text)
    \/ TimeUnmarshal

TimeSpec == TimeInit /\ [][TimeNext]_vars

(***************************************************************************)
(* Vocabulary of the properties.                                           *)
(***************************************************************************)
\* The call has returned to its caller.
HasReturned == pc = "done" /\ ret.returned

Failed == HasReturned /\ ret.err.kind # "nil"

Succeeded == HasReturned /\ ret.err.kind = "nil"

\* A response was received and io.ReadAll read its whole body.
BodyRead ==
    /\ HasReturned
    /\ net.state = "resp"
    /\ Len(phases) = 4
    /\ respBody.kind # "partial"

\* The status the gateway answered with.
WireStatus == net.status

NotFoundCodes ==
    {ErrorCodePaymentNotFound, ErrorCodeOrderNotFound, ErrorCodeTransferNotFound,
     ErrorCodeTokenNotFound}

(***************************************************************************)
(* C1: when a response was received and its body fully read, the call      *)
(* fails with an APIError carrying the response's status code if and only  *)
(* if the status is >= 400; a status below 400 (399 and 3xx included)      *)
(* never gives an APIError, and a body with status >= 400 is never decoded *)
(* into the result type.                                                   *)
(***************************************************************************)
C1_StatusRouting ==
    BodyRead =>
        /\ (IsAPIError(ret.err) /\ ret.err.api.StatusCode = WireStatus) <=> (WireStatus >= 400)
        /\ WireStatus < 400 => ~IsAPIError(ret.err)
        /\ WireStatus >= 400 => "Result" \notin decodes /\ local = ZeroResult /\ ret.nilResult

C1_Witness ==
    /\ BodyRead
    /\ WireStatus = 400
    /\ IsAPIError(ret.err)
    /\ ret.err.api.StatusCode = 400
    /\ respBody = ResultBody("number")

(***************************************************************************)
(* C2: an APIError that carries a parsed envelope is classified by the     *)
(* envelope code alone, whatever its HTTP status: not-found iff the code   *)
(* is PaymentNotFound, OrderNotFound, TransferNotFound or TokenNotFound,   *)
(* validation iff it is ValidationError, authentication iff it is          *)
(* BadCredentials; and a 400 response with envelope code 21 yields an      *)
(* error whose validation predicate is true.                               *)
(***************************************************************************)
C2_EnvelopeClassification ==
    /\ (Failed /\ IsAPIError(ret.err) /\ ret.err.api.hasErr) =>
          /\ IsNotFound(ret.err.api) <=> (ret.err.api.Err.code \in NotFoundCodes)
          /\ IsValidationError(ret.err.api) <=> (ret.err.api.Err.code = ErrorCodeValidationError)
          /\ IsAuthenticationError(ret.err.api) <=> (ret.err.api.Err.code = ErrorCodeBadCredentials)
    /\ (BodyRead /\ WireStatus = 400 /\ respBody = EnvelopeBody(21)) =>
          /\ IsAPIError(ret.err) /\ ret.err.api.hasErr
          /\ IsValidationError(ret.err.api)

\* A 401 response whose envelope says ValidationError: validation, not authentication.
C2_Witness ==
    /\ BodyRead
    /\ WireStatus = 401
    /\ respBody = EnvelopeBody(ErrorCodeValidationError)
    /\ IsAPIError(ret.err) /\ ret.err.api.hasErr
    /\ IsValidationError(ret.err.api)
    /\ ~IsAuthenticationError(ret.err.api)

(***************************************************************************)
(* C3: an APIError that carries no parsed envelope is classified by its    *)
(* HTTP status: not-found iff 404, validation iff 400, authentication iff  *)
(* 401; and the pipeline turns a 404 response with an unparseable body     *)
(* into an error that classifies as not-found.                             *)
(***************************************************************************)
C3_StatusClassification ==
    /\ (Failed /\ IsAPIError(ret.err) /\ ~ret.err.api.hasErr) =>
          /\ IsNotFound(ret.err.api) <=> (WireStatus = 404)
          /\ IsValidationError(ret.err.api) <=> (WireStatus = 400)
          /\ IsAuthenticationError(ret.err.api) <=> (WireStatus = 401)
    /\ (BodyRead /\ WireStatus = 404 /\ respBody = RawBody("text")) =>
          /\ IsAPIError(ret.err) /\ ~ret.err.api.hasErr
          /\ IsNotFound(ret.err.api)

C3_Witness ==
    /\ BodyRead
    /\ WireStatus = 404
    /\ respBody = RawBody("text")
    /\ IsAPIError(ret.err) /\ ~ret.err.api.hasErr
    /\ IsNotFound(ret.err.api)

(***************************************************************************)
(* C4: every request that is sent carries Content-Type: application/json,  *)
(* Accept: application/json and X-Terminal-Id with the configured terminal *)
(* id; it carries a Basic Authorization header iff username and password   *)
(* are both non-empty, and X-Signature (the configured signature) iff the  *)
(* signature is non-empty, each decided on its own.                        *)
(***************************************************************************)
C4_HeaderContract ==
    /\ doCount > 0 => req.built
    /\ req.built =>
          /\ HasHeader(req.headers, "Content-Type")
          /\ HeaderGet(req.headers, "Content-Type") = "application/json"
          /\ HasHeader(req.headers, "Accept")
          /\ HeaderGet(req.headers, "Accept") = "application/json"
          /\ HasHeader(req.headers, "X-Terminal-Id")
          /\ HeaderGet(req.headers, "X-Terminal-Id") = cfg.terminalID
          /\ HasHeader(req.headers, "Authorization") <=> (cfg.username # "" /\ cfg.password # "")
          /\ HasHeader(req.headers, "Authorization") =>
                HeaderGet(req.headers, "Authorization")
                    = "Basic b64(" \o cfg.username \o ":" \o cfg.password \o ")"
          /\ HasHeader(req.headers, "X-Signature") <=> (cfg.signature # "")
          /\ HasHeader(req.headers, "X-Signature") =>
                HeaderGet(req.headers, "X-Signature") = cfg.signature
          /\ Cardinality(req.headers) = Cardinality({e.name : e \in req.headers})

\* A request on the wire with a signature and, a password missing, no basic auth.
C4_Witness ==
    /\ net.state = "sent"
    /\ cfg.username # "" /\ cfg.password = "" /\ cfg.signature # ""
    /\ HasHeader(req.headers, "X-Signature")
    /\ ~HasHeader(req.headers, "Authorization")

(***************************************************************************)
(* The endpoint table of the interface description, and what a successful  *)
(* response body says about the result.                                    *)
(***************************************************************************)
EndpointMethod(o) ==
    CASE o = "CreatePayment"             -> "POST"
      [] o = "GetPaymentStatus"          -> "GET"
      [] o = "GetPaymentStatusByRequest" -> "GET"
      [] o = "CancelPayment"             -> "POST"
      [] o = "CancelPaymentByRequest"    -> "POST"
      [] o = "RefundPayment"             -> "POST"
      [] o = "RefundPaymentByRequest"    -> "POST"

EndpointPath(o, i) ==
    CASE o = "CreatePayment"             -> <<"/payment">>
      [] o = "GetPaymentStatus"          -> <<"/payment/">> \o i \o <<"/status">>
      [] o = "GetPaymentStatusByRequest" -> <<"/payment/status/by/request/">> \o i
      [] o = "CancelPayment"             -> <<"/payment/">> \o i \o <<"/cancel">>
      [] o = "CancelPaymentByRequest"    -> <<"/payment/cancel/by/request/">> \o i
      [] o = "RefundPayment"             -> <<"/payment/">> \o i \o <<"/refund">>
      [] o = "RefundPaymentByRequest"    -> <<"/payment/refund/by/request/">> \o i

\* The request carries the endpoint's method, and its URL path is the
\* configured base URL followed by the endpoint's path, nothing cut off.
SendsEndpoint ==
    /\ req.method = EndpointMethod(op)
    /\ <<req.host>> \o req.path = cfg.baseURL \o EndpointPath(op, id)
    /\ req.query = <<>>

FieldsOf(b) ==
    IF b.kind = "object"
    THEN Result(b.paymentId, b.status, IF b.amount = "number" THEN "finite" ELSE "zero")
    ELSE ZeroResult

ResultCarriesBody == Succeeded => ~ret.nilResult /\ ret.result = FieldsOf(respBody)

\* An identifier made only of characters a URL path segment takes as they are.
SafeIdentifier(i) == \A k \in 1..Len(i) : i[k] \notin {"?", "#", "%zz"}

(***************************************************************************)
(* C5 as stated: each operation sends the (method, path) pair of the       *)
(* endpoint table with the caller's identifier interpolated unchanged,     *)
(* appended to the configured base URL, and on success the result carries  *)
(* the field values of the response body.                                  *)
(***************************************************************************)
C5_Original == (req.built => SendsEndpoint) /\ ResultCarriesBody

(***************************************************************************)
(* C5 amended: the same, for identifiers made only of characters that a    *)
(* URL path segment takes as they are (no "?", no "#", no malformed        *)
(* percent-escape); for such identifiers a request is always built.        *)
(***************************************************************************)
C5_Endpoints ==
    /\ (req.built /\ SafeIdentifier(id)) => SendsEndpoint
    /\ (SafeIdentifier(id) /\ pc \in {"send", "inflight", "read"}) => req.built
    /\ ResultCarriesBody

C5_Witness ==
    /\ Succeeded
    /\ op = "RefundPaymentByRequest"
    /\ id = <<"p1">>
    /\ req.path = <<"/api/v1", "/payment/refund/by/request/", "p1">>
    /\ ret.result = Result("p1", "CREATED", "finite")

(***************************************************************************)
(* C6: when a request body is supplied and its JSON encoding fails, the    *)
(* call fails at once with a local encoding fault and no HTTP request is   *)
(* built or sent: the HTTP client is never invoked.                        *)
(***************************************************************************)
\* The supplied body cannot be encoded: its Amount is NaN.
Unencodable == arg.ptr = "set" /\ arg.amount = "NaN"

C6_EncodingFault ==
    (Unencodable /\ pc # "serialize") =>
        /\ Failed
        /\ ret.err = Errorf("failed to marshal request body")
        /\ ret.nilResult
        /\ phases = <<"Serialize">>
        /\ ~req.built
        /\ doCount = 0
        /\ net.state = "idle"

C6_Witness ==
    /\ Unencodable
    /\ Failed
    /\ ret.err.msg = "failed to marshal request body"
    /\ doCount = 0

(***************************************************************************)
(* C7: no retry.  A call invokes the HTTP client at most once, whatever    *)
(* the outcome, and goes through Serialize, Build, Send, Interpret at most *)
(* once each, in that order.                                               *)
(***************************************************************************)
PhaseOrder == <<"Serialize", "Build", "Send", "Interpret">>

C7_NoRetry ==
    /\ doCount <= 1
    /\ Len(phases) <= Len(PhaseOrder)
    /\ phases = SubSeq(PhaseOrder, 1, Len(phases))
    /\ doCount = 1 <=> Len(phases) >= 3

\* A call that ended in a failed send has invoked the client once.
C7_Witness ==
    /\ Failed
    /\ ret.err = Errorf("failed to execute request")
    /\ net.state = "failed"
    /\ doCount = 1
    /\ phases = <<"Serialize", "Build", "Send">>

(***************************************************************************)
(* Fault categories, as a caller tells them apart, and the phase that      *)
(* failed, as the history of the call shows it.                            *)
(***************************************************************************)
Category(e) ==
    CASE IsAPIError(e) -> "api"
      [] e.kind = "wrapped" /\ e.msg \in {"failed to marshal request body",
                                          "failed to unmarshal response"} -> "local"
      [] e.kind = "wrapped" /\ e.msg \in {"failed to create request",
                                          "failed to execute request",
                                          "failed to read response body"} -> "transport"
      [] OTHER -> "none"

\* A body json.Unmarshal cannot decode into a result record.
Undecodable(b) == b.kind \in {"text", "array"} \/ (b.kind = "object" /\ b.amount = "string")

DecodingFailed == BodyRead /\ WireStatus < 400 /\ Undecodable(respBody)

ConstructionFailed == HasReturned /\ phases = <<"Serialize", "Build">>

SendFailed == HasReturned /\ phases = <<"Serialize", "Build", "Send">>

ReadFailed == HasReturned /\ Len(phases) = 4 /\ respBody.kind = "partial"

FaultCategories(apiCase) ==
    Failed =>
        /\ Category(ret.err) \in {"local", "transport", "api"}
        /\ Category(ret.err) = "local" <=> (Unencodable \/ DecodingFailed)
        /\ Category(ret.err) = "transport" <=> (ConstructionFailed \/ SendFailed \/ ReadFailed)
        /\ Category(ret.err) = "api" <=> apiCase
        /\ Category(ret.err) # "api" => ret.err.kind = "wrapped" /\ ret.err.api = NoAPIError

(***************************************************************************)
(* C8 as stated: a failed call reports exactly one of three categories: a  *)
(* local fault iff encoding the request or decoding the response failed, a *)
(* transport fault iff request construction, the send or reading the       *)
(* response failed, an API fault iff a response with status >= 400 was     *)
(* received; a transport or local failure is never an APIError.            *)
(***************************************************************************)
C8_Original == FaultCategories(resp.received /\ resp.StatusCode >= 400)

(***************************************************************************)
(* C8 amended: the same, with an API fault iff a response with status      *)
(* >= 400 was received and its body fully read (a response whose body      *)
(* could not be read is a transport fault whatever its status), and with   *)
(* response-body decoding meaning the decoding of a response with status   *)
(* < 400 into the result type.                                             *)
(***************************************************************************)
C8_FaultCategories == FaultCategories(BodyRead /\ WireStatus >= 400)

\* A response with status >= 400 whose body could not be read.
C8_Witness ==
    /\ Failed
    /\ resp.received /\ resp.StatusCode >= 400
    /\ ReadFailed
    /\ Category(ret.err) = "transport"

(***************************************************************************)
(* C9: a response with status < 400 and an empty body gives the zero-value *)
(* result and no error, and nothing is decoded.                            *)
(***************************************************************************)
C9_EmptyBody ==
    (BodyRead /\ WireStatus < 400 /\ respBody = EmptyBody) =>
        /\ Succeeded
        /\ ~ret.nilResult
        /\ ret.result = ZeroResult
        /\ decodes = {}

C9_Witness ==
    /\ BodyRead
    /\ WireStatus = 200
    /\ respBody = EmptyBody
    /\ Succeeded
    /\ ret.result = ZeroResult

(***************************************************************************)
(* Cancellation.  The HTTP client returns from Do once the round trip has  *)
(* failed or the context is done, and io.ReadAll returns once the          *)
(* connection broke or the context is done: the two steps are fair.  No    *)
(* fairness is asked of the gateway, the network or the caller.            *)
(***************************************************************************)
FairSpec == Spec /\ WF_vars(DoError) /\ WF_vars(ReadError)

\* The context became done while the request was in flight: during the
\* send, or while the response body was being read.
CancelledInFlight == cancelAt \in {"inflight", "read"}

TransportFailure ==
    /\ Failed
    /\ ret.err \in {Errorf("failed to execute request"), Errorf("failed to read response body")}
    /\ ret.nilResult
    /\ ret.result = ZeroResult

\* Nothing of a response whose body was not read to its end reaches the caller.
NoPartialResponse ==
    (HasReturned /\ respBody.kind = "partial") =>
        /\ ret = Returned(TRUE, TRUE, ZeroResult, Errorf("failed to read response body"))
        /\ local = ZeroResult
        /\ decodes = {}

EventuallyReturns == (CancelledInFlight /\ pc \in {"inflight", "read"}) ~> HasReturned

(***************************************************************************)
(* C10 as stated: when the context is cancelled or its deadline expires    *)
(* while the request is in flight, the call eventually returns, its        *)
(* outcome is a transport-level failure (never an APIError, never a        *)
(* success) and no result, nothing of a partial response being retained.   *)
(***************************************************************************)
C10_Original ==
    /\ []((HasReturned /\ CancelledInFlight) => TransportFailure)
    /\ []NoPartialResponse
    /\ EventuallyReturns

(***************************************************************************)
(* C10 amended: when the context is cancelled or its deadline expires      *)
(* while the request is in flight, the call eventually returns and nothing *)
(* of a partially received response is retained or handed to the caller;   *)
(* its outcome is a transport-level failure with no result, unless the     *)
(* response had arrived completely as the cancellation took effect, in     *)
(* which case the outcome is that of the response.                         *)
(***************************************************************************)
C10_Cancellation ==
    /\ []((HasReturned /\ CancelledInFlight) => (TransportFailure \/ BodyRead))
    /\ []NoPartialResponse
    /\ EventuallyReturns

\* Cancelled while the body was being read; the read was aborted.
C10_Witness ==
    /\ HasReturned
    /\ cancelAt = "read"
    /\ net.state = "resp"
    /\ respBody.kind = "partial"
    /\ ret.err = Errorf("failed to read response body")
    /\ ret.nilResult

(***************************************************************************)
(* C11: under every interleaving of the steps of concurrent calls on one   *)
(* client, the client configuration is never written after construction,   *)
(* and each call's request and outcome are those of its own arguments, the *)
(* configuration and its own response: the request carries the call's own  *)
(* method, path and body, and the outcome carries the status and the body  *)
(* the gateway answered that call with, whatever the other calls sent,     *)
(* received or failed with.                                                *)
(***************************************************************************)
\* The calls in progress: the running one and the waiting ones.
Frames == {Running} \cup {parked[k] : k \in 1..Len(parked)}

OwnRequest(f) ==
    (f.req.built /\ SafeIdentifier(f.id)) =>
        /\ f.req.method = EndpointMethod(f.op)
        /\ <<f.req.host>> \o f.req.path = cfg.baseURL \o EndpointPath(f.op, f.id)
        /\ HeaderGet(f.req.headers, "X-Terminal-Id") = cfg.terminalID
        /\ f.req.body.present <=> f.arg.ptr # "none"
        /\ f.req.body.json.kind = "null" <=> f.arg.ptr = "nil"
        /\ f.req.body.json.requestId = f.arg.requestId

OwnOutcome(f) ==
    (f.pc = "done" /\ f.ret.returned) =>
        /\ f.resp.received => f.resp.StatusCode = f.net.status
        /\ IsAPIError(f.ret.err) =>
              /\ f.net.state = "resp" /\ f.net.status >= 400
              /\ f.ret.err.api.StatusCode = f.net.status
              /\ ~f.ret.err.api.hasErr => f.ret.err.api.Message = f.respBody
        /\ f.ret.err.kind = "nil" =>
              /\ f.net.state = "resp" /\ f.net.status < 400
              /\ ~f.ret.nilResult /\ f.ret.result = FieldsOf(f.respBody)
        /\ f.net.state \in {"failed", "broken"} =>
              /\ f.ret.nilResult
              /\ f.ret.err \in {Errorf("failed to execute request"),
                                Errorf("failed to read response body")}

C11_Isolation ==
    /\ [][cfg' = cfg]_vars
    /\ [](\A f \in Frames : OwnRequest(f) /\ OwnOutcome(f))

\* Two calls overlap: one has returned the APIError of its own 404 while the
\* other, a different operation answered with 200, is still reading.
C11_Witness ==
    /\ Len(parked) = 1
    /\ pc = "done" /\ IsAPIError(ret.err) /\ ret.err.api.StatusCode = 404
    /\ parked[1].pc = "read" /\ parked[1].net = Net("resp", 200)
    /\ parked[1].op # op
    /\ parked[1].req.built /\ req.built /\ parked[1].req.path # req.path

(***************************************************************************)
(* Vocabulary of the codec's properties.                                   *)
(***************************************************************************)
\* UnmarshalJSON has returned.
HasParsed == codec.at = "parsed"

ParseSucceeded == HasParsed /\ codec.err.kind = "nil"

\* Two Time values are the same instant (time.Time.Equal).
SameInstant(a, b) == a.sec = b.sec /\ a.nsec = b.nsec

\* The text between the quotes of the JSON string in hand.
TextInHand == Trim(codec.data)

(***************************************************************************)
(* C12 as stated: for every instant T (any seconds, any sub-second         *)
(* component, any zone offset, the zero Time included), parsing the text   *)
(* MarshalJSON gives for T with UnmarshalJSON, into a fresh destination,   *)
(* succeeds and yields the same instant T.                                 *)
(***************************************************************************)
C12_RoundTrip ==
    (HasParsed /\ codec.from = "MarshalJSON" /\ codec.before = ZeroTime) =>
        /\ codec.err.kind = "nil"
        /\ SameInstant(codec.dest, codec.t)

(***************************************************************************)
(* C13: every well-formed naive text s, "YYYY-MM-DDTHH:MM:SS" with no      *)
(* fraction and no offset, parses without error to the instant its wall    *)
(* clock shows in UTC, the instant s followed by Z parses to; the naive    *)
(* layout is tried only after the parse under RFC3339 failed, and when the *)
(* parse under RFC3339 succeeds its result is the one stored.              *)
(***************************************************************************)
IsNaive(s) == Len(s) = 1 /\ s[1].c = "datetime"

C13_Fallback ==
    HasParsed =>
        /\ IsNaive(TextInHand) =>
              /\ ParseSucceeded
              /\ codec.dest.sec = TextInHand[1].n /\ codec.dest.nsec = 0
              /\ Parse("RFC3339", TextInHand \o <<Zulu>>).ok
              /\ SameInstant(codec.dest, Parse("RFC3339", TextInHand \o <<Zulu>>).t)
        /\ (\E k \in 1..Len(codec.tried) : codec.tried[k].layout = "naive") =>
              /\ Len(codec.tried) = 2
              /\ codec.tried[1] = Tried("RFC3339", FALSE)
              /\ codec.tried[2].layout = "naive"
        /\ (codec.tried # <<>> /\ codec.tried[1].ok) =>
              /\ codec.tried = <<Tried("RFC3339", TRUE)>>
              /\ ParseSucceeded
              /\ codec.dest = Parse("RFC3339", TextInHand).t

\* A naive text was parsed by the fallback into a destination that held
\* another Time.
C13_Witness ==
    /\ ParseSucceeded
    /\ IsNaive(TextInHand)
    /\ codec.tried = <<Tried("RFC3339", FALSE), Tried("naive", TRUE)>>
    /\ codec.dest = GoTime(86400, 0, 0)
    /\ codec.before # codec.dest

(***************************************************************************)
(* C14 as stated: UnmarshalJSON of null or of an empty text returns no     *)
(* error and leaves the zero Time in the destination, whatever value the   *)
(* destination held before the call.                                       *)
(***************************************************************************)
NullOrEmpty == codec.data \in {<<Null>>, <<>>, <<Quote, Quote>>}

C14_NullIsZero ==
    (HasParsed /\ NullOrEmpty) =>
        /\ codec.err.kind = "nil"
        /\ codec.dest = ZeroTime

(***************************************************************************)
(* C15: MarshalJSON gives JSON null exactly for the zero Time; for every   *)
(* other Time it gives a quoted text in the RFC 3339 form, wall clock      *)
(* followed by Z or a numeric offset, that denotes the second of the Time: *)
(* never an empty string, never the naive form without a zone.             *)
(***************************************************************************)
Formatted == codec.from = "MarshalJSON"

ZeroInstant(t) == t.sec = 0 /\ t.nsec = 0

QualifiedText(s, t) ==
    /\ Len(s) = 4
    /\ s[1] = Quote /\ s[4] = Quote
    /\ s[2].c = "datetime"
    /\ s[3].c \in {"Z", "offset"}
    /\ s[3].c = "Z" <=> t.off = 0
    /\ s[2].n - (IF s[3].c = "offset" THEN s[3].n ELSE 0) = t.sec

C15_Format ==
    Formatted =>
        /\ codec.data = <<Null>> <=> ZeroInstant(codec.t)
        /\ ~ZeroInstant(codec.t) =>
              /\ QualifiedText(codec.data, codec.t)
              /\ codec.data # <<Quote, Quote>>
              /\ ~IsNaive(Trim(codec.data))

\* A Time in the zone +01:00 was formatted with its numeric offset.
C15_Witness ==
    /\ Formatted
    /\ codec.t = GoTime(86400, 500000000, 3600)
    /\ codec.data = <<Quote, DateTime(90000), Offset(3600), Quote>>

(***************************************************************************)
(* C16 as stated: for every text that is not null, not empty, and matches  *)
(* neither the timezone-qualified form nor the naive form (wall clock to   *)
(* the second, no fractional second, no offset), UnmarshalJSON fails with  *)
(* a parse error that carries the text, and the destination is left as it  *)
(* was.                                                                    *)
(***************************************************************************)
\* RFC 3339: wall clock, an optional fractional second, Z or a numeric offset.
IsQualified(s) ==
    /\ Len(s) \in {2, 3}
    /\ s[1].c = "datetime"
    /\ Len(s) = 3 => s[2].c = "frac"
    /\ s[Len(s)].c \in {"Z", "offset"}

\* The naive form followed by a fractional second.
IsNaiveWithFraction(s) == Len(s) = 2 /\ s[1].c = "datetime" /\ s[2].c = "frac"

Rejected ==
    /\ codec.err = ParseError("naive", TextInHand)
    /\ codec.dest = codec.before

C16_Original ==
    (HasParsed /\ TextInHand \notin {<<Null>>, <<>>}
       /\ ~IsQualified(TextInHand) /\ ~IsNaive(TextInHand)) => Rejected

(***************************************************************************)
(* C16 amended: for every text that is not null, not empty, and matches    *)
(* neither the timezone-qualified form nor the naive form, a fractional    *)
(* second after the seconds being accepted in both, UnmarshalJSON fails    *)
(* with the parse error of the naive layout, which carries the text (the   *)
(* data without its quotes), and the destination is left as it was; a      *)
(* naive text with a fractional second parses, in UTC, fraction kept.      *)
(***************************************************************************)
C16_Rejects ==
    HasParsed =>
        /\ (TextInHand \notin {<<Null>>, <<>>} /\ ~IsQualified(TextInHand)
              /\ ~IsNaive(TextInHand) /\ ~IsNaiveWithFraction(TextInHand)) => Rejected
        /\ IsNaiveWithFraction(TextInHand) =>
              /\ ParseSucceeded
              /\ codec.dest = GoTime(TextInHand[1].n, TextInHand[2].n, 0)
        /\ codec.err.kind # "nil" => Rejected

\* A clock followed by other characters was rejected; the destination still
\* holds the Time stored in it earlier.
C16_Witness ==
    /\ HasParsed
    /\ codec.data = <<Quote, DateTime(86400), Chars, Quote>>
    /\ codec.err = ParseError("naive", <<DateTime(86400), Chars>>)
    /\ codec.before = GoTime(90000, 0, 0)
    /\ codec.dest = codec.before

(***************************************************************************)
(* C17 as stated: for every response with status >= 400 whose body was     *)
(* read, the APIError carries an envelope exactly when the body is JSON    *)
(* carrying an error object (code and message); for every other body, the  *)
(* empty one, text that is not JSON, and JSON without an error object such *)
(* as {} or null, it carries no envelope and the body text as its Message. *)
(***************************************************************************)
IsEnvelope(b) == b.kind = "object" /\ b.err = "object"

C17_EnvelopeOrRaw ==
    (BodyRead /\ WireStatus >= 400) =>
        /\ IsAPIError(ret.err)
        /\ ret.err.api.hasErr <=> IsEnvelope(respBody)
        /\ ~IsEnvelope(respBody) => ret.err.api.Message = respBody

(***************************************************************************)
(* C18: for every APIError a call returns, whatever its status, with or    *)
(* without an envelope, whatever the envelope's code, at most one of       *)
(* IsNotFound, IsValidationError and IsAuthenticationError is true.        *)
(***************************************************************************)
Classes(e) ==
    {p \in {"NotFound", "Validation", "Authentication"} :
        \/ p = "NotFound" /\ IsNotFound(e)
        \/ p = "Validation" /\ IsValidationError(e)
        \/ p = "Authentication" /\ IsAuthenticationError(e)}

C18_AtMostOneClass ==
    (HasReturned /\ IsAPIError(ret.err)) => Cardinality(Classes(ret.err.api)) <= 1

\* Status and envelope point to different classes: a 401 whose envelope says
\* VALIDATION_ERROR is a validation error and nothing else.
C18_Witness ==
    /\ HasReturned /\ IsAPIError(ret.err)
    /\ ret.err.api.StatusCode = 401
    /\ ret.err.api.hasErr /\ ret.err.api.Err.code = ErrorCodeValidationError
    /\ Classes(ret.err.api) = {"Validation"}

(***************************************************************************)
(* C19: each of the seven operations returns exactly one of a non-nil      *)
(* result and a non-nil error: on every failure the result is nil, also    *)
(* when decoding had filled part of the result variable before it failed,  *)
(* and on success the error is nil and the result is not.                  *)
(***************************************************************************)
C19_ResultXorError ==
    HasReturned =>
        /\ op \in Operations
        /\ ret.nilResult <=> ret.err.kind # "nil"
        /\ ret.err.kind # "nil" => ret.result = ZeroResult
        /\ ret.err.kind = "nil" => ret.result = local

\* Decoding filled paymentId and status, then failed on amount: the caller
\* gets the error and a nil result.
C19_Witness ==
    /\ HasReturned
    /\ local.paymentId = "p1"
    /\ ret.err = Errorf("failed to unmarshal response")
    /\ ret.nilResult
    /\ ret.result = ZeroResult

====
